---- MODULE Spec2Model ----
(***************************************************************************)
(* repo-watcher (src/main.go): a root-level watcher on reposRoot adds and  *)
(* removes repositories to/from currentlyWatching and the inner watcher;   *)
(* the inner watcher's file events run the configured command in the       *)
(* repository computed from the event path.                                *)
(*                                                                         *)
(* Strings are tuples of one-character strings, so that strings.Split,     *)
(* strings.Join, filepath.Split, filepath.Clean and the regexp match are   *)
(* computed character by character as the Go code computes them.           *)
(***************************************************************************)
EXTENDS Integers, Sequences, FiniteSets, Bags, TLC

VARIABLES config, cwd, rootKind, repoKind, watchKind, fileKind, fsOps,
          rootWatched, subs, currentlyWatching, reposMutex,
          reposEvents, events, pc, path, scanList, pcFile, cmdDir,
          crashed, log

vars == <<config, cwd, rootKind, repoKind, watchKind, fileKind, fsOps,
          rootWatched, subs, currentlyWatching, reposMutex,
          reposEvents, events, pc, path, scanList, pcFile, cmdDir,
          crashed, log>>

(***************************************************************************)
(* Bounds of the model.                                                    *)
(***************************************************************************)
\* number of filesystem changes the environment makes in one behaviour
MaxFsOps == 2
\* events the notification layer holds undelivered, per watcher
MaxQueue == 2

(***************************************************************************)
(* Strings.                                                                *)
(***************************************************************************)
separator == <<"/">>

\* strings, and lists of strings
Str == Seq(STRING)
StrList == Seq(Str)

\* strings.Split from position i on: cur is the piece being read, acc the
\* pieces already closed
SplitFrom[s \in Str, i \in Nat, cur \in Str, acc \in StrList] ==
    IF i > Len(s) THEN Append(acc, cur)
    ELSE IF s[i] = separator[1]
         THEN SplitFrom[s, i + 1, <<>>, Append(acc, cur)]
         ELSE SplitFrom[s, i + 1, Append(cur, s[i]), acc]

\* strings.Split(s, separator): the pieces between separators, empty ones kept
Split(s) == SplitFrom[s, 1, <<>>, <<>>]

\* strings.Join(parts, separator), as a function so that TLC evaluates the
\* argument once
JoinOf[parts \in StrList] ==
    IF Len(parts) = 0 THEN <<>>
    ELSE IF Len(parts) = 1 THEN parts[1]
    ELSE parts[1] \o separator \o JoinOf[Tail(parts)]

\* strings.Join(parts, separator)
Join(parts) == JoinOf[parts]

\* filterEmptyParts: the elements of non-zero length, in order
filterEmptyParts(elements) == SelectSeq(elements, LAMBDA e : Len(e) > 0)

\* index of the last separator of s, 0 when there is none
LastSep(s) ==
    LET at == {i \in 1..Len(s) : s[i] = separator[1]}
    IN  IF at = {} THEN 0 ELSE CHOOSE i \in at : \A j \in at : j <= i

\* filepath.Split: dir is the path up to and including the last separator
SplitDir(p) == SubSeq(p, 1, LastSep(p))
SplitBase(p) == SubSeq(p, LastSep(p) + 1, Len(p))

\* filepath.Clean on the non-empty elements: "." dropped, ".." cancels the
\* element before it, is dropped at the root and kept at the start otherwise
CleanParts[parts \in StrList, rooted \in BOOLEAN, out \in StrList] ==
    IF Len(parts) = 0 THEN out
    ELSE IF Head(parts) = <<".">> THEN CleanParts[Tail(parts), rooted, out]
    ELSE IF Head(parts) = <<".", ".">>
         THEN IF Len(out) > 0 /\ out[Len(out)] # <<".", ".">>
              THEN CleanParts[Tail(parts), rooted, SubSeq(out, 1, Len(out) - 1)]
              ELSE IF rooted THEN CleanParts[Tail(parts), rooted, out]
              ELSE CleanParts[Tail(parts), rooted, Append(out, Head(parts))]
    ELSE CleanParts[Tail(parts), rooted, Append(out, Head(parts))]

\* filepath.Clean of a string already evaluated
CleanOf[p \in Str] ==
    LET rooted == Len(p) > 0 /\ p[1] = separator[1]
        body == Join(CleanParts[filterEmptyParts(Split(p)), rooted, <<>>])
    IN  IF rooted THEN separator \o body
        ELSE IF Len(body) = 0 THEN <<".">> ELSE body

\* filepath.Clean
Clean(p) == CleanOf[p]

\* (*regexp.Regexp).Match for a literal pattern: the pattern occurs somewhere
Match(pattern, s) ==
    \E i \in 1..(Len(s) + 1) :
        /\ i + Len(pattern) - 1 <= Len(s)
        /\ SubSeq(s, i, i + Len(pattern) - 1) = pattern

(***************************************************************************)
(* Names on disk and the configurations (config.json) the model draws.     *)
(***************************************************************************)
\* directory entries that come and go directly under reposRoot
Repos == {<<"a">>, <<"b">>}
\* ioutil.ReadDir returns the entries sorted by name
SortedRepos == << <<"a">>, <<"b">> >>
\* file names inside a watch subpath: "mt" matches the pattern "t", "x" does not
Files == {<<"m", "t">>, <<"x">>}
\* the names the environment also uses for a subdirectory
DirNames == {<<"m", "t">>}

Threads == {"main", "root"}

Cfg(root, wp) ==
    [ReposRoot |-> root, WatchPath |-> wp, WatchRegexp |-> <<"t">>,
     Execute |-> <<"e">>]

\* reposRoot as the watcher itself runs with: relative and absolute
MainRoots == {<<"r">>, <<"/", "d", "/", "r">>}
\* reposRoot spellings for the path computation of processEvent
PathRoots == MainRoots \cup
             {<<".", "/", "r">>, <<"r", "/">>, <<".", ".", "/", "r">>,
              <<"d", "/", "/", "r">>, <<"x", "/", ".", ".", "/", "r">>,
              <<"/", "r">>, <<".", "/", ".", "/", ".", "/", "r">>}
WatchPaths == {<<"s">>, <<"s", "/", "t">>}
\* the directory the watcher process runs in: the filesystem root or below it
Cwds == {<<"/">>, <<"/", "w">>}
\* a directory next to the relative roots, as the root "x/../r" needs it
Siblings == {<<"x">>}

(***************************************************************************)
(* The filesystem, as os.Stat and the notification layer see it.           *)
(***************************************************************************)
RootP == Clean(config.ReposRoot)
\* the path addRepo and removeRepo use as the key of a repository
RepoP(r) == Clean(config.ReposRoot \o separator \o r)
TargetP(r) == Clean(RepoP(r) \o separator \o config.WatchPath)
\* the name the inner watcher reports for file f of repository r
FileP(r, f) == TargetP(r) \o separator \o f

IsPrefix(s, t) == Len(s) <= Len(t) /\ SubSeq(t, 1, Len(s)) = s

\* the absolute path the kernel resolves a path to: a relative path starts
\* at the working directory of the process
AbsOf[c \in Str] ==
    IF Len(c) > 0 /\ c[1] = separator[1] THEN Clean(c)
    ELSE Clean(cwd \o separator \o c)
Abs(p) == AbsOf[p]

\* the absolute paths of reposRoot's entry r and of its watch subpath and
\* files, root being the absolute path of reposRoot
RepoA(r, root) == root \o separator \o r
TargetA(r, root) == Clean(RepoA(r, root) \o separator \o config.WatchPath)
FileA(r, f, root) == TargetA(r, root) \o separator \o f

\* directories outside reposRoot: the filesystem root, the working directory,
\* the ancestors of both and of reposRoot, and the sibling directories
OutsideDir(c, root) ==
    \/ c = separator
    \/ c = cwd
    \/ IsPrefix(c \o separator, cwd)
    \/ IsPrefix(c \o separator, root)
    \/ \E x \in Siblings : c = Abs(x)

\* what is below repository r at the absolute path c
StatBelow(r, c, root) ==
    IF repoKind[r] = "none" THEN "ENOENT"
    ELSE IF repoKind[r] = "file" THEN "ENOTDIR"
    ELSE IF IsPrefix(c, TargetA(r, root)) THEN
         (IF watchKind[r] = "dir" THEN "dir"
          ELSE IF watchKind[r] = "file"
               THEN (IF c = TargetA(r, root) THEN "file" ELSE "dir")
               ELSE "ENOENT")
    ELSE IF \E f \in Files : c = FileA(r, f, root) THEN
         (IF watchKind[r] = "file" THEN "ENOTDIR"
          ELSE IF watchKind[r] # "dir" THEN "ENOENT"
          ELSE LET f == CHOOSE g \in Files : c = FileA(r, g, root)
               IN  IF fileKind[<<r, f>>] = "none" THEN "ENOENT"
                   ELSE fileKind[<<r, f>>])
    ELSE "ENOENT"

\* what is at the absolute path c, root being the absolute path of reposRoot
StatOf[c \in Str, root \in Str] ==
    IF c = root THEN (IF rootKind = "none" THEN "ENOENT" ELSE rootKind)
    ELSE IF ~IsPrefix(root \o separator, c)
         THEN (IF OutsideDir(c, root) THEN "dir" ELSE "ENOENT")
    ELSE IF rootKind = "none" THEN "ENOENT"
    ELSE IF rootKind = "file" THEN "ENOTDIR"
    ELSE IF \E r \in Repos : c = RepoA(r, root) THEN
         (LET r == CHOOSE q \in Repos : c = RepoA(q, root)
          IN  IF repoKind[r] = "none" THEN "ENOENT" ELSE repoKind[r])
    ELSE IF \E r \in Repos : IsPrefix(RepoA(r, root) \o separator, c) THEN
         StatBelow(CHOOSE q \in Repos : IsPrefix(RepoA(q, root) \o separator, c),
                   c, root)
    ELSE "ENOENT"

\* the positions of p where the kernel's path walk steps into the directory
\* named so far
Steps(p) == {i \in 2..Len(p) : p[i] = separator[1] /\ p[i - 1] # separator[1]}

\* the kernel's path walk: every prefix that is followed by a separator must
\* be a directory (so "x/../r" needs x, and "f/" fails on a regular file f),
\* then the whole path is looked up
StatWalk[p \in Str, root \in Str] ==
    IF Len(p) = 0 THEN "ENOENT"
    ELSE LET bad == {i \in Steps(p) :
                        StatOf[Abs(SubSeq(p, 1, i - 1)), root] # "dir"}
         IN  IF bad = {} THEN StatOf[Abs(p), root]
             ELSE LET i == CHOOSE j \in bad : \A k \in bad : j <= k
                  IN  IF StatOf[Abs(SubSeq(p, 1, i - 1)), root] = "ENOENT"
                      THEN "ENOENT" ELSE "ENOTDIR"

\* os.Stat(p): "dir", "file", or the error ENOENT / ENOTDIR
Stat(p) == StatWalk[p, Abs(RootP)]

Qualifies(r) == repoKind[r] = "dir" /\ watchKind[r] = "dir"

Msg(kind, what, arg) == [kind |-> kind, what |-> what, arg |-> arg]
Logged(m) == log (+) SetToBag({m})

(***************************************************************************)
(* processEvent.                                                           *)
(***************************************************************************)
\* capacity of a slice grown from []string{} by n appends of one element
SliceCap[n \in Nat] == IF n <= 2 THEN n ELSE 2 * SliceCap[(n + 1) \div 2]

\* line 134: os.IsNotExist(err) || info.IsDir()
StatSkips(name) == Stat(name) = "ENOENT" \/ Stat(name) = "dir"

\* line 134: err is set and is not ENOENT, so info is nil and info.IsDir() panics
StatPanics(name) == Stat(name) \notin {"ENOENT", "dir", "file"}

\* regexp.Compile: of the characters the model draws only "(" is a
\* metacharacter, and an unclosed group does not compile
Compiles(pattern) == \A i \in 1..Len(pattern) : pattern[i] # "("

\* lines 63-64: the compiled pattern; Compile returns nil with its error, which
\* checkError only logs
watcherRegexp == IF Compiles(config.WatchRegexp) THEN config.WatchRegexp ELSE <<"nil">>

\* line 139: Match on the nil *Regexp dereferences it
RegexpPanics(name) == watcherRegexp = <<"nil">>

\* lines 138-141: the basename does not match watcherRegexp
RegexpSkips(name) == ~Match(watcherRegexp, SplitBase(name))

reposRootParts == filterEmptyParts(Split(config.ReposRoot))
dirPathParts(name) == filterEmptyParts(Split(SplitDir(name)))

\* line 146: dirPathParts[:len(reposRootParts)+1] is out of range
SlicePanics(name) == Len(reposRootParts) + 1 > SliceCap[Len(dirPathParts(name))]

\* lines 143-146: the first len(reposRootParts)+1 segments, rejoined; the
\* segments between length and capacity are empty strings
repoPath(name) ==
    LET parts == dirPathParts(name)
        n == Len(reposRootParts) + 1
    IN  Join([i \in 1..n |-> IF i <= Len(parts) THEN parts[i] ELSE <<>>])

\* what processEvent does with a file event before the command runs
Outcome(name) ==
    IF StatPanics(name) THEN "panic"
    ELSE IF StatSkips(name) THEN "return"
    ELSE IF RegexpPanics(name) THEN "panic"
    ELSE IF RegexpSkips(name) THEN "return"
    ELSE IF SlicePanics(name) THEN "panic"
    ELSE "exec"

\* lines 151-154: cmd.Output() starts the command; the child changes into
\* cmd.Dir first, and the start fails when that is not a directory (an empty
\* cmd.Dir is the directory of the process)
Starts(dir) == Len(dir) = 0 \/ Stat(dir) = "dir"

\* lines 155-157 with the failed command run again
AfterOutputRetry(ok) == IF ok THEN "idle" ELSE "exec"

\* lines 155-160: with or without an error processEvent returns to the loop
AfterOutput(ok) == "idle"

\* lines 103-108 with a loop that receives while processEvent is still running
LoopReceivesAnytime(at) == TRUE

\* lines 103-108: the loop is back at the receive only after processEvent,
\* cmd.Output() included, has returned
LoopReceives(at) == at = "idle"

\* lines 105-106, 132-157: the file loop takes the next event and processes it
\* up to the start of the command; a command that cannot start is logged as
\* an error at once, a started one leaves the loop blocked in cmd.Output()
processEvent ==
    /\ ~crashed /\ pc["main"] # "exit"
    /\ LoopReceives(pcFile) /\ Len(events) > 0
    /\ LET name == Head(events).Name
       IN  /\ events' = Tail(events)
           /\ crashed' = (Outcome(name) = "panic")
           /\ IF Outcome(name) = "exec"
              THEN IF Starts(repoPath(name))
                   THEN /\ pcFile' = "exec"
                        /\ cmdDir' = repoPath(name)
                        /\ log' = Logged(Msg("info", "Executing", repoPath(name)))
                   ELSE /\ pcFile' = AfterOutput(FALSE)
                        /\ cmdDir' = <<>>
                        /\ log' = Logged(Msg("info", "Executing", repoPath(name)))
                                     (+) SetToBag({Msg("error", "command", <<>>)})
              ELSE UNCHANGED <<pcFile, cmdDir, log>>
    /\ UNCHANGED <<config, cwd, rootKind, repoKind, watchKind, fileKind, fsOps,
                   rootWatched, subs, currentlyWatching, reposMutex,
                   reposEvents, pc, path, scanList>>

\* lines 154-160: the started command exits and cmd.Output() returns, with
\* an error (non-zero exit) or with the output
cmdOutput ==
    /\ ~crashed /\ pc["main"] # "exit"
    /\ pcFile = "exec"
    /\ \E ok \in BOOLEAN :
          /\ log' = Logged(IF ok THEN Msg("info", "output", <<>>)
                                 ELSE Msg("error", "command", <<>>))
          /\ pcFile' = AfterOutput(ok)
    /\ cmdDir' = <<>>
    /\ UNCHANGED <<config, cwd, rootKind, repoKind, watchKind, fileKind, fsOps,
                   rootWatched, subs, currentlyWatching, reposMutex,
                   reposEvents, events, pc, path, scanList, crashed>>

(***************************************************************************)
(* watchRepos: the main goroutine.                                         *)
(***************************************************************************)
Running == ~crashed /\ pc["main"] # "exit"

\* where a goroutine continues after addRepo or removeRepo returns
Return(t) == IF t = "main" THEN "scan" ELSE "idle"

\* lines 76-83: os.Stat(reposRoot); a missing root or a non-directory panics
watchReposStat ==
    /\ Running /\ pc["main"] = "start"
    /\ IF Stat(config.ReposRoot) = "dir"
       THEN /\ pc' = [pc EXCEPT !["main"] = "addwatch"]
            /\ UNCHANGED crashed
       ELSE /\ crashed' = TRUE
            /\ UNCHANGED pc
    /\ UNCHANGED <<config, cwd, rootKind, repoKind, watchKind, fileKind, fsOps,
                   rootWatched, subs, currentlyWatching, reposMutex,
                   reposEvents, events, path, scanList, pcFile, cmdDir, log>>

\* lines 85-109: both loops are started and reposWatcher.Add(reposRoot)
\* registers the root-level watch; when it fails watchRepos logs and returns
watchReposAdd ==
    /\ Running /\ pc["main"] = "addwatch"
    /\ \E ok \in BOOLEAN :
          IF ok /\ Stat(config.ReposRoot) = "dir"
          THEN /\ rootWatched' = TRUE
               /\ pc' = [pc EXCEPT !["main"] = "readdir"]
               /\ UNCHANGED log
          ELSE /\ log' = Logged(Msg("error", "watch", Clean(config.ReposRoot)))
               /\ pc' = [pc EXCEPT !["main"] = "exit"]
               /\ UNCHANGED rootWatched
    /\ UNCHANGED <<config, cwd, rootKind, repoKind, watchKind, fileKind, fsOps,
                   subs, currentlyWatching, reposMutex, reposEvents, events,
                   path, scanList, pcFile, cmdDir, crashed>>

\* line 111: ioutil.ReadDir(reposRoot), the entries sorted by name
watchReposReadDir ==
    /\ Running /\ pc["main"] = "readdir"
    /\ scanList' = SelectSeq(SortedRepos, LAMBDA r : repoKind[r] # "none")
    /\ pc' = [pc EXCEPT !["main"] = "scan"]
    /\ UNCHANGED <<config, cwd, rootKind, repoKind, watchKind, fileKind, fsOps,
                   rootWatched, subs, currentlyWatching, reposMutex,
                   reposEvents, events, path, pcFile, cmdDir, crashed, log>>

\* lines 112-116: the next entry goes to addRepo; after the last one the main
\* goroutine blocks on <-done
watchReposScan ==
    /\ Running /\ pc["main"] = "scan"
    /\ IF Len(scanList) = 0
       THEN /\ pc' = [pc EXCEPT !["main"] = "wait"]
            /\ UNCHANGED <<path, scanList>>
       ELSE /\ path' = [path EXCEPT !["main"] =
                           config.ReposRoot \o separator \o Head(scanList)]
            /\ scanList' = Tail(scanList)
            /\ pc' = [pc EXCEPT !["main"] = "add"]
    /\ UNCHANGED <<config, cwd, rootKind, repoKind, watchKind, fileKind, fsOps,
                   rootWatched, subs, currentlyWatching, reposMutex,
                   reposEvents, events, pcFile, cmdDir, crashed, log>>

(***************************************************************************)
(* addRepo and removeRepo, run by the main goroutine (scan) and the root   *)
(* loop.                                                                   *)
(***************************************************************************)
cleanPath(t) == Clean(path[t])
targetPath(t) == Clean(cleanPath(t) \o separator \o config.WatchPath)

\* lines 176-184 without the check of lines 181-184
StatsPassRepoOnly(t) == Stat(cleanPath(t)) = "dir"

\* lines 176-184: the path and path/watchPath must both be directories
StatsPass(t) == Stat(cleanPath(t)) = "dir" /\ Stat(targetPath(t)) = "dir"

\* lines 176-184: addRepo returns unless both os.Stat calls find a directory
addRepoStat(t) ==
    /\ Running /\ pc[t] = "add"
    /\ IF StatsPass(t)
       THEN /\ pc' = [pc EXCEPT ![t] = "addLock"]
            /\ UNCHANGED path
       ELSE /\ pc' = [pc EXCEPT ![t] = Return(t)]
            /\ path' = [path EXCEPT ![t] = <<>>]
    /\ UNCHANGED <<config, cwd, rootKind, repoKind, watchKind, fileKind, fsOps,
                   rootWatched, subs, currentlyWatching, reposMutex,
                   reposEvents, events, scanList, pcFile, cmdDir,
                   crashed, log>>

\* lines 186 and 200 with a lock that excludes nobody
LockReturnsAlways(t) == TRUE

\* lines 186, 200: reposMutex.Lock() returns only once the mutex is free
LockReturns(t) == reposMutex = "free"

\* line 186: reposMutex.Lock()
addRepoLock(t) ==
    /\ Running /\ pc[t] = "addLock"
    /\ LockReturns(t)
    /\ reposMutex' = t
    /\ pc' = [pc EXCEPT ![t] = "addBody"]
    /\ UNCHANGED <<config, cwd, rootKind, repoKind, watchKind, fileKind, fsOps,
                   rootWatched, subs, currentlyWatching, reposEvents, events,
                   path, scanList, pcFile, cmdDir, crashed, log>>

\* line 187 with a membership test that always misses
AlreadyWatchingNever(t) == FALSE

\* line 187: currentlyWatching[cleanPath] is present
AlreadyWatching(t) == cleanPath(t) \in currentlyWatching

\* watcher.Add(p): the subscription is registered when p exists; the error of
\* a failed registration is dropped at line 190
WatcherAdd(p) == IF Stat(p) \in {"dir", "file"} THEN subs \cup {p} ELSE subs

\* lines 187-192: a path not yet watched is logged, subscribed and recorded
addRepoBody(t) ==
    /\ Running /\ pc[t] = "addBody"
    /\ IF ~AlreadyWatching(t)
       THEN /\ log' = Logged(Msg("info", "Adding repo", cleanPath(t)))
            /\ subs' = WatcherAdd(targetPath(t))
            /\ currentlyWatching' = currentlyWatching \cup {cleanPath(t)}
       ELSE UNCHANGED <<log, subs, currentlyWatching>>
    /\ pc' = [pc EXCEPT ![t] = "addUnlock"]
    /\ UNCHANGED <<config, cwd, rootKind, repoKind, watchKind, fileKind, fsOps,
                   rootWatched, reposMutex, reposEvents, events, path,
                   scanList, pcFile, cmdDir, crashed>>

\* lines 193 and 207 without the call of Unlock
UnlockMissing(t) == t

\* lines 193, 207: reposMutex.Unlock() by the goroutine that holds it
Unlock(t) == "free"

\* line 193: reposMutex.Unlock()
addRepoUnlock(t) ==
    /\ Running /\ pc[t] = "addUnlock"
    /\ reposMutex' = Unlock(t)
    /\ pc' = [pc EXCEPT ![t] = Return(t)]
    /\ path' = [path EXCEPT ![t] = <<>>]
    /\ UNCHANGED <<config, cwd, rootKind, repoKind, watchKind, fileKind, fsOps,
                   rootWatched, subs, currentlyWatching, reposEvents, events,
                   scanList, pcFile, cmdDir, crashed, log>>

\* lines 197-200: reposMutex.Lock()
removeRepoLock(t) ==
    /\ Running /\ pc[t] = "rmLock"
    /\ LockReturns(t)
    /\ reposMutex' = t
    /\ pc' = [pc EXCEPT ![t] = "rmBody"]
    /\ UNCHANGED <<config, cwd, rootKind, repoKind, watchKind, fileKind, fsOps,
                   rootWatched, subs, currentlyWatching, reposEvents, events,
                   path, scanList, pcFile, cmdDir, crashed, log>>

\* line 201 with a membership test that always hits
IsWatchingAlways(t) == TRUE

\* line 201: currentlyWatching[cleanPath] is present
IsWatching(t) == cleanPath(t) \in currentlyWatching

\* lines 201-206: a watched path is logged, unsubscribed and forgotten
removeRepoBody(t) ==
    /\ Running /\ pc[t] = "rmBody"
    /\ IF IsWatching(t)
       THEN /\ log' = Logged(Msg("info", "Removing repo", cleanPath(t)))
            /\ subs' = subs \ {targetPath(t)}
            /\ currentlyWatching' = currentlyWatching \ {cleanPath(t)}
       ELSE UNCHANGED <<log, subs, currentlyWatching>>
    /\ pc' = [pc EXCEPT ![t] = "rmUnlock"]
    /\ UNCHANGED <<config, cwd, rootKind, repoKind, watchKind, fileKind, fsOps,
                   rootWatched, reposMutex, reposEvents, events, path,
                   scanList, pcFile, cmdDir, crashed>>

\* line 207: reposMutex.Unlock()
removeRepoUnlock(t) ==
    /\ Running /\ pc[t] = "rmUnlock"
    /\ reposMutex' = Unlock(t)
    /\ pc' = [pc EXCEPT ![t] = Return(t)]
    /\ path' = [path EXCEPT ![t] = <<>>]
    /\ UNCHANGED <<config, cwd, rootKind, repoKind, watchKind, fileKind, fsOps,
                   rootWatched, subs, currentlyWatching, reposEvents, events,
                   scanList, pcFile, cmdDir, crashed, log>>

(***************************************************************************)
(* The root loop.                                                          *)
(***************************************************************************)
\* lines 121-129 without the Remove branch
DispatchNoRemove(op) ==
    IF "Create" \in op THEN "add"
    ELSE IF "Chmod" \in op THEN "add"
    ELSE IF "Rename" \in op THEN "rmLock"
    ELSE "idle"

\* lines 121-129: the handler an event's Op selects
Dispatch(op) ==
    IF "Create" \in op THEN "add"
    ELSE IF "Chmod" \in op THEN "add"
    ELSE IF "Rename" \in op THEN "rmLock"
    ELSE IF "Remove" \in op THEN "rmLock"
    ELSE "idle"

\* lines 89-90, 120-130: the root loop takes the next root-level event
processReposEvent ==
    /\ Running /\ pc["root"] = "idle"
    /\ Len(reposEvents) > 0
    /\ reposEvents' = Tail(reposEvents)
    /\ pc' = [pc EXCEPT !["root"] = Dispatch(Head(reposEvents).Op)]
    /\ path' = [path EXCEPT !["root"] =
                    IF Dispatch(Head(reposEvents).Op) = "idle" THEN <<>>
                    ELSE Head(reposEvents).Name]
    /\ UNCHANGED <<config, cwd, rootKind, repoKind, watchKind, fileKind, fsOps,
                   rootWatched, subs, currentlyWatching, reposMutex, events,
                   scanList, pcFile, cmdDir, crashed, log>>

(***************************************************************************)
(* The environment: other processes change the filesystem, and the         *)
(* notification layer queues an event for every change a watcher is        *)
(* subscribed to.  A watch on a directory reports its direct children and  *)
(* the deletion of the directory itself, and ends with that deletion.  A   *)
(* watch stays with the directory when an ancestor is renamed: for the     *)
(* path it was registered under the subscription is over, and the model    *)
(* does not follow the directory to its new place.                         *)
(***************************************************************************)
EnvOk == Running /\ rootKind = "dir" /\ fsOps < MaxFsOps

RootRoom == rootWatched => Len(reposEvents) < MaxQueue
RootEvent(r, op) ==
    IF rootWatched
    THEN Append(reposEvents, [Name |-> RootP \o separator \o r, Op |-> {op}])
    ELSE reposEvents

InnerRoom(r) == TargetP(r) \in subs => Len(events) < MaxQueue
InnerEvent(r, f, op) ==
    IF TargetP(r) \in subs
    THEN Append(events, [Name |-> FileP(r, f), Op |-> {op}])
    ELSE events

NoFiles(r) == [k \in Repos \X Files |-> IF k[1] = r THEN "none" ELSE fileKind[k]]

\* what the watch directory of r holds
Doomed(r) == {f \in Files : fileKind[<<r, f>>] # "none"}

\* the orders in which rm -rf can meet the members of a set
Orders(S) == {o \in [1..Cardinality(S) -> S] :
                 \A i, j \in 1..Cardinality(S) : o[i] = o[j] => i = j}

\* rm -rf of the subscribed watch directory of r: Remove for every child in
\* the order o, then Remove for the directory itself, named by the watch path
WatchDirRemoved(r, o) ==
    IF TargetP(r) \in subs
    THEN events
           \o [i \in 1..Len(o) |-> [Name |-> FileP(r, o[i]), Op |-> {"Remove"}]]
           \o <<[Name |-> TargetP(r), Op |-> {"Remove"}]>>
    ELSE events
RemovalRoom(r) ==
    TargetP(r) \in subs => Len(events) + Cardinality(Doomed(r)) + 1 <= MaxQueue

\* mkdir reposRoot/r, or mkdir -p reposRoot/r/watchPath in one go
MkRepo(r, withWatch) ==
    /\ EnvOk /\ repoKind[r] = "none" /\ RootRoom
    /\ repoKind' = [repoKind EXCEPT ![r] = "dir"]
    /\ watchKind' = [watchKind EXCEPT ![r] = IF withWatch THEN "dir" ELSE "none"]
    /\ reposEvents' = RootEvent(r, "Create")
    /\ fsOps' = fsOps + 1
    /\ UNCHANGED <<config, cwd, rootKind, fileKind, rootWatched, subs,
                   currentlyWatching, reposMutex, events, pc, path, scanList,
                   pcFile, cmdDir, crashed, log>>

\* a regular file is created directly under reposRoot
MkRepoFile(r) ==
    /\ EnvOk /\ repoKind[r] = "none" /\ RootRoom
    /\ repoKind' = [repoKind EXCEPT ![r] = "file"]
    /\ reposEvents' = RootEvent(r, "Create")
    /\ fsOps' = fsOps + 1
    /\ UNCHANGED <<config, cwd, rootKind, watchKind, fileKind, rootWatched, subs,
                   currentlyWatching, reposMutex, events, pc, path, scanList,
                   pcFile, cmdDir, crashed, log>>

\* a regular file directly under reposRoot is written
WriteRepoFile(r) ==
    /\ EnvOk /\ repoKind[r] = "file" /\ RootRoom
    /\ reposEvents' = RootEvent(r, "Write")
    /\ fsOps' = fsOps + 1
    /\ UNCHANGED <<config, cwd, rootKind, repoKind, watchKind, fileKind,
                   rootWatched, subs, currentlyWatching, reposMutex, events,
                   pc, path, scanList, pcFile, cmdDir, crashed, log>>

\* rm -rf reposRoot/r (moved = FALSE) or mv reposRoot/r elsewhere (moved =
\* TRUE): the deletion is reported to the inner watcher child by child, the
\* move is not; either way nothing is subscribed at the path any more
RmRepo(r, moved) ==
    /\ EnvOk /\ repoKind[r] # "none" /\ RootRoom
    /\ ~moved => RemovalRoom(r)
    /\ repoKind' = [repoKind EXCEPT ![r] = "none"]
    /\ watchKind' = [watchKind EXCEPT ![r] = "none"]
    /\ fileKind' = NoFiles(r)
    /\ subs' = subs \ {TargetP(r)}
    /\ reposEvents' = RootEvent(r, IF moved THEN "Rename" ELSE "Remove")
    /\ \E o \in Orders(Doomed(r)) :
          events' = IF moved THEN events ELSE WatchDirRemoved(r, o)
    /\ fsOps' = fsOps + 1
    /\ UNCHANGED <<config, cwd, rootKind, rootWatched, currentlyWatching,
                   reposMutex, pc, path, scanList, pcFile, cmdDir,
                   crashed, log>>

\* chmod / touch of reposRoot/r
ChmodRepo(r) ==
    /\ EnvOk /\ repoKind[r] # "none" /\ RootRoom
    /\ reposEvents' = RootEvent(r, "Chmod")
    /\ fsOps' = fsOps + 1
    /\ UNCHANGED <<config, cwd, rootKind, repoKind, watchKind, fileKind,
                   rootWatched, subs, currentlyWatching, reposMutex, events,
                   pc, path, scanList, pcFile, cmdDir, crashed, log>>

\* mkdir reposRoot/r/watchPath: no root-level event
MkWatch(r) ==
    /\ EnvOk /\ repoKind[r] = "dir" /\ watchKind[r] = "none"
    /\ watchKind' = [watchKind EXCEPT ![r] = "dir"]
    /\ fsOps' = fsOps + 1
    /\ UNCHANGED <<config, cwd, rootKind, repoKind, fileKind, rootWatched, subs,
                   currentlyWatching, reposMutex, reposEvents, events, pc,
                   path, scanList, pcFile, cmdDir, crashed, log>>

\* rm -rf reposRoot/r/watchPath: reported to the inner watcher child by
\* child, then the subscription ends; no root-level event
RmWatch(r) ==
    /\ EnvOk /\ watchKind[r] = "dir"
    /\ RemovalRoom(r)
    /\ watchKind' = [watchKind EXCEPT ![r] = "none"]
    /\ fileKind' = NoFiles(r)
    /\ subs' = subs \ {TargetP(r)}
    /\ \E o \in Orders(Doomed(r)) : events' = WatchDirRemoved(r, o)
    /\ fsOps' = fsOps + 1
    /\ UNCHANGED <<config, cwd, rootKind, repoKind, rootWatched,
                   currentlyWatching, reposMutex, reposEvents, pc,
                   path, scanList, pcFile, cmdDir, crashed, log>>

\* a file of the watch directory is created or written
WriteFile(r, f) ==
    /\ EnvOk /\ watchKind[r] = "dir" /\ fileKind[<<r, f>>] # "dir"
    /\ InnerRoom(r)
    /\ fileKind' = [fileKind EXCEPT ![<<r, f>>] = "file"]
    /\ events' = InnerEvent(r, f, IF fileKind[<<r, f>>] = "none"
                                  THEN "Create" ELSE "Write")
    /\ fsOps' = fsOps + 1
    /\ UNCHANGED <<config, cwd, rootKind, repoKind, watchKind, rootWatched, subs,
                   currentlyWatching, reposMutex, reposEvents, pc, path,
                   scanList, pcFile, cmdDir, crashed, log>>

\* a subdirectory of the watch directory is created
MkSubdir(r, f) ==
    /\ EnvOk /\ watchKind[r] = "dir" /\ fileKind[<<r, f>>] = "none"
    /\ InnerRoom(r)
    /\ fileKind' = [fileKind EXCEPT ![<<r, f>>] = "dir"]
    /\ events' = InnerEvent(r, f, "Create")
    /\ fsOps' = fsOps + 1
    /\ UNCHANGED <<config, cwd, rootKind, repoKind, watchKind, rootWatched, subs,
                   currentlyWatching, reposMutex, reposEvents, pc, path,
                   scanList, pcFile, cmdDir, crashed, log>>

\* a file or subdirectory of the watch directory is removed
RmFile(r, f) ==
    /\ EnvOk /\ watchKind[r] = "dir" /\ fileKind[<<r, f>>] # "none"
    /\ InnerRoom(r)
    /\ fileKind' = [fileKind EXCEPT ![<<r, f>>] = "none"]
    /\ events' = InnerEvent(r, f, "Remove")
    /\ fsOps' = fsOps + 1
    /\ UNCHANGED <<config, cwd, rootKind, repoKind, watchKind, rootWatched, subs,
                   currentlyWatching, reposMutex, reposEvents, pc, path,
                   scanList, pcFile, cmdDir, crashed, log>>

Env ==
    \/ \E r \in Repos, w \in BOOLEAN : MkRepo(r, w)
    \/ \E r \in Repos : MkRepoFile(r)
    \/ \E r \in Repos : WriteRepoFile(r)
    \/ \E r \in Repos, m \in BOOLEAN : RmRepo(r, m)
    \/ \E r \in Repos : ChmodRepo(r)
    \/ \E r \in Repos : MkWatch(r)
    \/ \E r \in Repos : RmWatch(r)
    \/ \E r \in Repos, f \in Files : WriteFile(r, f)
    \/ \E r \in Repos, f \in DirNames : MkSubdir(r, f)
    \/ \E r \in Repos, f \in Files : RmFile(r, f)

(***************************************************************************)
(* The watcher as a whole.                                                 *)
(***************************************************************************)
Init ==
    /\ config \in {Cfg(root, <<"s">>) : root \in MainRoots}
    /\ cwd = <<"/", "w">>
    /\ rootKind = "dir"
    /\ repoKind = [r \in Repos |-> IF r = <<"a">> THEN "dir" ELSE "none"]
    /\ watchKind = [r \in Repos |-> IF r = <<"a">> THEN "dir" ELSE "none"]
    /\ fileKind = [k \in Repos \X Files |-> "none"]
    /\ fsOps = 0
    /\ rootWatched = FALSE
    /\ subs = {}
    /\ currentlyWatching = {}
    /\ reposMutex = "free"
    /\ reposEvents = <<>>
    /\ events = <<>>
    /\ pc = [t \in Threads |-> IF t = "main" THEN "start" ELSE "idle"]
    /\ path = [t \in Threads |-> <<>>]
    /\ scanList = <<>>
    /\ pcFile = "idle"
    /\ cmdDir = <<>>
    /\ crashed = FALSE
    /\ log = SetToBag({Msg("info", "Starting", <<>>)})

Main == watchReposStat \/ watchReposAdd \/ watchReposReadDir \/ watchReposScan

Repo(t) ==
    \/ addRepoStat(t) \/ addRepoLock(t)
    \/ addRepoBody(t) \/ addRepoUnlock(t)
    \/ removeRepoLock(t) \/ removeRepoBody(t) \/ removeRepoUnlock(t)

Next ==
    \/ Main
    \/ \E t \in Threads : Repo(t)
    \/ processReposEvent
    \/ processEvent
    \/ cmdOutput
    \/ Env

Spec == Init /\ [][Next]_vars

(***************************************************************************)
(* The path computation alone: every configuration, one delivered event.   *)
(***************************************************************************)
PathInit ==
    /\ config \in {Cfg(root, wp) : root \in PathRoots, wp \in WatchPaths}
    /\ cwd \in Cwds
    /\ rootKind = "dir"
    /\ \E r \in Repos, f \in Files :
          /\ repoKind \in [Repos -> {"dir", "none", "file"}]
          /\ watchKind \in [Repos -> {"dir", "none"}]
          /\ fileKind \in [Repos \X Files -> {"file", "dir", "none"}]
          /\ \A q \in Repos :
                /\ q # r => repoKind[q] = "dir" /\ watchKind[q] = "dir"
                /\ repoKind[q] # "dir" => watchKind[q] = "none"
                /\ \A g \in Files :
                      /\ watchKind[q] # "dir" => fileKind[<<q, g>>] = "none"
                      /\ (q # r \/ g # f) => fileKind[<<q, g>>] = "none"
          /\ events = <<[Name |-> FileP(r, f), Op |-> {"Write"}]>>
    /\ fsOps = 0
    /\ rootWatched = TRUE
    /\ subs = {TargetP(r) : r \in {q \in Repos : watchKind[q] = "dir"}}
    /\ currentlyWatching = {RepoP(r) : r \in Repos}
    /\ reposMutex = "free"
    /\ reposEvents = <<>>
    /\ pc = [t \in Threads |-> IF t = "main" THEN "wait" ELSE "idle"]
    /\ path = [t \in Threads |-> <<>>]
    /\ scanList = <<>>
    /\ pcFile = "idle"
    /\ cmdDir = <<>>
    /\ crashed = FALSE
    /\ log = SetToBag({Msg("info", "Starting", <<>>)}
                       \cup {Msg("info", "Adding repo", RepoP(r)) : r \in Repos})

PathNext == processEvent \/ cmdOutput

PathSpec == PathInit /\ [][PathNext]_vars

(***************************************************************************)
(* Startup: every root (directory, regular file, missing) and a pattern    *)
(* that compiles or not.                                                   *)
(***************************************************************************)
\* watchRegexp values: "t" compiles, "(" does not
StartRegexps == {<<"t">>, <<"(">>}
StartKinds == {"dir", "file", "none"}

\* lines 42-66: main up to the call of watchRepos; the error of regexp.Compile
\* is logged by checkError and main goes on
StartInit ==
    /\ config \in {[Cfg(<<"r">>, <<"s">>) EXCEPT !.WatchRegexp = re] :
                      re \in StartRegexps}
    /\ cwd = <<"/", "w">>
    /\ rootKind \in StartKinds
    /\ repoKind = [r \in Repos |-> IF r = <<"a">> /\ rootKind = "dir"
                                    THEN "dir" ELSE "none"]
    /\ watchKind = repoKind
    /\ fileKind = [k \in Repos \X Files |-> "none"]
    /\ fsOps = 0
    /\ rootWatched = FALSE
    /\ subs = {}
    /\ currentlyWatching = {}
    /\ reposMutex = "free"
    /\ reposEvents = <<>>
    /\ events = <<>>
    /\ pc = [t \in Threads |-> IF t = "main" THEN "start" ELSE "idle"]
    /\ path = [t \in Threads |-> <<>>]
    /\ scanList = <<>>
    /\ pcFile = "idle"
    /\ cmdDir = <<>>
    /\ crashed = FALSE
    /\ log = IF Compiles(config.WatchRegexp)
             THEN SetToBag({Msg("info", "Starting", <<>>)})
             ELSE SetToBag({Msg("info", "Starting", <<>>),
                            Msg("error", "regexp", config.WatchRegexp)})

StartSpec == StartInit /\ [][Next]_vars

(***************************************************************************)
(* Startup population on an unchanging filesystem: every content of        *)
(* reposRoot, populated either by the scan of lines 111-114 or by one      *)
(* create event per existing entry handed to the root loop.                *)
(***************************************************************************)
\* what an entry of reposRoot is, and what its watch subpath is
EntryKinds == {<<"dir", "dir">>, <<"dir", "file">>, <<"dir", "none">>,
               <<"file", "none">>, <<"none", "none">>}

\* the entries ioutil.ReadDir returns, sorted by name
Entries == SelectSeq(SortedRepos, LAMBDA r : repoKind[r] # "none")

ScanInit ==
    /\ config \in {Cfg(root, <<"s">>) : root \in PathRoots}
    /\ cwd = <<"/", "w">>
    /\ rootKind = "dir"
    /\ \E k \in [Repos -> EntryKinds] :
          /\ repoKind = [r \in Repos |-> k[r][1]]
          /\ watchKind = [r \in Repos |-> k[r][2]]
    /\ fileKind = [k \in Repos \X Files |-> "none"]
    /\ fsOps = 0
    /\ subs = {}
    /\ currentlyWatching = {}
    /\ reposMutex = "free"
    /\ events = <<>>
    /\ \E byEvents \in BOOLEAN :
          IF byEvents
          THEN /\ rootWatched = TRUE
               /\ pc = [t \in Threads |-> IF t = "main" THEN "wait" ELSE "idle"]
               /\ reposEvents = [i \in 1..Len(Entries) |->
                                   [Name |-> RootP \o separator \o Entries[i],
                                    Op |-> {"Create"}]]
          ELSE /\ rootWatched = FALSE
               /\ pc = [t \in Threads |-> IF t = "main" THEN "start" ELSE "idle"]
               /\ reposEvents = <<>>
    /\ path = [t \in Threads |-> <<>>]
    /\ scanList = <<>>
    /\ pcFile = "idle"
    /\ cmdDir = <<>>
    /\ crashed = FALSE
    /\ log = SetToBag({Msg("info", "Starting", <<>>)})

ScanNext ==
    \/ Main
    \/ \E t \in Threads : \/ addRepoStat(t) \/ addRepoLock(t)
                           \/ addRepoBody(t) \/ addRepoUnlock(t)
    \/ processReposEvent

ScanSpec == ScanInit /\ [][ScanNext]_vars

\* the loops and the scan keep running; a started command may never exit
FairSpec ==
    /\ Spec
    /\ WF_vars(Main)
    /\ \A t \in Threads : WF_vars(Repo(t))
    /\ WF_vars(processReposEvent)
    /\ WF_vars(processEvent)

(***************************************************************************)
(* Vocabulary of the properties.                                           *)
(***************************************************************************)
\* the file loop is about to take an event
Taking == Running /\ pcFile = "idle" /\ Len(events) > 0
NextName == Head(events).Name

\* a qualifying event: the path is a regular file and the basename matches
Qualifying(name) ==
    Stat(name) = "file" /\ Match(config.WatchRegexp, SplitBase(name))

\* the repository whose watch subpath holds the named file
Owners(name) == {r \in Repos : IsPrefix(TargetP(r) \o separator, name)}

Member(r) == RepoP(r) \in currentlyWatching
Subscribed(r) == TargetP(r) \in subs

\* how many times line 149 has logged the start of a command
Executions ==
    BagCardinality([m \in {k \in BagToSet(log) : k.what = "Executing"} |-> log[m]])
Copies(what, arg) == CopiesIn(Msg("info", what, arg), log)

(***************************************************************************)
(* C1: every qualifying file event taken by the file loop starts the       *)
(* command exactly once, with the owning repository under reposRoot as     *)
(* the working directory.                                                  *)
(***************************************************************************)
C1_OneCommandInOwningRepo ==
    [][(processEvent /\ Qualifying(NextName))
         => /\ pcFile' = "exec"
            /\ Executions' = Executions + 1
            /\ \E r \in Owners(NextName) : Abs(cmdDir') = Abs(RepoP(r))]_vars

(***************************************************************************)
(* C2: for every reposRoot and every qualifying event path                 *)
(* reposRoot/<repo>/<watchPath>/<file>, the repository root processEvent   *)
(* computes denotes reposRoot/<repo>.                                      *)
(***************************************************************************)
C2_RepoRootIsReposRootRepo ==
    [][(processEvent /\ Qualifying(NextName))
         => /\ ~crashed'
            /\ \E r \in Owners(NextName) :
                   Abs(repoPath(NextName)) = Abs(RepoP(r))]_vars

(***************************************************************************)
(* C3: an event that does not qualify (basename not matching, or path a    *)
(* directory or not existing) starts no command and changes nothing else.  *)
(***************************************************************************)
C3_NonQualifyingRejected ==
    [][(processEvent /\ ~Qualifying(NextName))
         => UNCHANGED <<pcFile, cmdDir, log, crashed, subs, currentlyWatching,
                        reposMutex, pc>>]_vars

(***************************************************************************)
(* C4: in every reachable state a repository path is in currentlyWatching  *)
(* exactly when the inner subscription for its watch subpath is active.    *)
(***************************************************************************)
C4_MemberIffSubscribed == \A r \in Repos : Member(r) <=> Subscribed(r)

(***************************************************************************)
(* C5: whenever addRepo inserts a path into currentlyWatching, the watch   *)
(* subpath of that path is a directory at the moment of the insertion.     *)
(***************************************************************************)
C5_WatchDirExistsAtInsertion ==
    [][\A t \in Threads :
          (addRepoBody(t) /\ cleanPath(t) \notin currentlyWatching)
             => Stat(targetPath(t)) = "dir"]_vars

(***************************************************************************)
(* C6: a directory directly under reposRoot that from some moment on       *)
(* contains watchPath as a directory, while the root-level watch is        *)
(* registered and the watcher keeps running, eventually is in              *)
(* currentlyWatching with an active subscription.                          *)
(***************************************************************************)
C6_QualifyingRepoEventuallyWatched ==
    \A r \in Repos :
        []((rootWatched /\ [](Qualifies(r) /\ Running))
              => <>(Member(r) /\ Subscribed(r)))

(***************************************************************************)
(* C7: when the directory of a watched repository is removed or renamed    *)
(* away and the root-level event is delivered, the path eventually leaves  *)
(* currentlyWatching and stays out for as long as the directory does not   *)
(* qualify again.                                                          *)
(***************************************************************************)
RemovalDelivered(r) ==
    \E i \in 1..Len(reposEvents) :
        /\ reposEvents[i].Name = RootP \o separator \o r
        /\ reposEvents[i].Op \cap {"Remove", "Rename"} # {}

C7_RemovedRepoLeavesAndStaysOut ==
    \A r \in Repos :
        []((Member(r) /\ repoKind[r] = "none" /\ RemovalDelivered(r)
               /\ [](~Qualifies(r) /\ Running))
              => <>[](~Member(r)))

(***************************************************************************)
(* C8: addRepo on a path already watched changes neither the membership,   *)
(* nor the subscriptions, nor the log, and each watched path has been      *)
(* registered exactly once more often than it has been removed, whether    *)
(* the calls come one after the other or race from the scan and the root   *)
(* loop.                                                                   *)
(***************************************************************************)
RegisteredOnce ==
    \A r \in Repos :
        Copies("Adding repo", RepoP(r)) - Copies("Removing repo", RepoP(r))
           = IF Member(r) THEN 1 ELSE 0

C8_AddTwiceIsAddOnce ==
    /\ []RegisteredOnce
    /\ [][\A t \in Threads :
             ((addRepoStat(t) \/ addRepoLock(t) \/ addRepoBody(t) \/ addRepoUnlock(t))
                 /\ cleanPath(t) \in currentlyWatching)
                => UNCHANGED <<currentlyWatching, subs, log>>]_vars

\* the scan waits for the lock for a path the root loop has just inserted
C8_Witness ==
    \E r \in Repos :
        /\ Qualifies(r) /\ Member(r) /\ Subscribed(r)
        /\ Copies("Adding repo", RepoP(r)) = 1
        /\ pc["root"] = "addUnlock" /\ cleanPath("root") = RepoP(r)
        /\ pc["main"] = "addLock" /\ cleanPath("main") = RepoP(r)

(***************************************************************************)
(* C9: removeRepo on a path that is not in currentlyWatching changes       *)
(* neither the membership of any path, nor the subscriptions, nor the log, *)
(* and raises no error.                                                    *)
(***************************************************************************)
C9_RemoveNonMemberIsNoOp ==
    [][\A t \in Threads :
          ((removeRepoLock(t) \/ removeRepoBody(t) \/ removeRepoUnlock(t))
              /\ cleanPath(t) \notin currentlyWatching)
             => UNCHANGED <<currentlyWatching, subs, log, crashed>>]_vars

\* removeRepo has run its body for a path that was never watched
C9_Witness ==
    \E r \in Repos :
        /\ pc["root"] = "rmUnlock" /\ cleanPath("root") = RepoP(r)
        /\ Copies("Adding repo", RepoP(r)) = 0
        /\ Copies("Removing repo", RepoP(r)) = 0
        /\ ~Member(r)

(***************************************************************************)
(* C10: after the directory of a repository has been deleted, a file event *)
(* for its old watch subpath or a path under it that is processed          *)
(* afterwards starts no command, logs nothing and raises no error: the     *)
(* event is skipped.                                                       *)
(***************************************************************************)
\* the directory of the owning repository is gone: nothing is at its path,
\* or a regular file has been put there since
Stale(name) ==
    \E r \in Repos :
        /\ repoKind[r] # "dir"
        /\ r \in Owners(name) \/ name = TargetP(r)

C10_StaleEventSkipped ==
    [][(processEvent /\ Stale(NextName))
          => /\ pcFile' = "idle" /\ cmdDir' = <<>>
             /\ UNCHANGED <<log, crashed, currentlyWatching, subs>>]_vars

(***************************************************************************)
(* C11: when a fatal startup condition holds (reposRoot missing or not a   *)
(* directory, watchRegexp not compiling, the root-level watch not          *)
(* registered), no repository is ever in currentlyWatching, no command is  *)
(* ever started and neither loop takes an event.                           *)
(***************************************************************************)
FatalStartup ==
    \/ rootKind # "dir"
    \/ ~Compiles(config.WatchRegexp)
    \/ pc["main"] = "exit"

C11_FatalStartupAborts ==
    /\ [](FatalStartup => /\ currentlyWatching = {} /\ subs = {}
                          /\ Executions = 0 /\ pcFile = "idle")
    /\ [][FatalStartup => ~(processReposEvent \/ processEvent)]_vars

(***************************************************************************)
(* C12: when the command fails (non-zero exit, or it cannot be started)    *)
(* the error is logged and the file loop is back at its channel with the   *)
(* later events still queued; no command is started again for the event    *)
(* and currentlyWatching and the subscriptions are unchanged.              *)
(***************************************************************************)
FailedCommands == CopiesIn(Msg("error", "command", <<>>), log)
CommandFails ==
    (cmdOutput \/ processEvent) /\ FailedCommands' = FailedCommands + 1

C12_FailedCommandLoggedLoopContinues ==
    [][CommandFails
         => /\ pcFile' = "idle" /\ ~crashed'
            /\ cmdOutput => UNCHANGED events /\ Executions' = Executions
            /\ processEvent
                  => events' = Tail(events) /\ Executions' = Executions + 1
            /\ UNCHANGED <<currentlyWatching, subs, reposEvents, pc,
                           reposMutex>>]_vars

\* after a failed command the next event of the still watched repository
\* has started the command again
C12_Witness ==
    /\ FailedCommands = 1 /\ Executions = 2 /\ pcFile = "exec"
    /\ \E r \in Repos : Member(r) /\ Subscribed(r) /\ cmdDir = RepoP(r)

(***************************************************************************)
(* C13: the startup scan has finished before the root loop or the file     *)
(* loop takes its first event, so addRepo of the scan never runs while the *)
(* root loop is inside addRepo or removeRepo, and once the scan is over    *)
(* only the root loop changes currentlyWatching.                           *)
(***************************************************************************)
ScanDone == pc["main"] = "wait"
InRepoCall(t) == pc[t] \in {"add", "addLock", "addBody", "addUnlock",
                            "rmLock", "rmBody", "rmUnlock"}

C13_ScanBeforeLoops ==
    /\ [][(processReposEvent \/ processEvent) => ScanDone]_vars
    /\ [](~(InRepoCall("main") /\ InRepoCall("root")))
    /\ [][(ScanDone /\ currentlyWatching' # currentlyWatching)
             => (addRepoBody("root") \/ removeRepoBody("root"))]_vars

(***************************************************************************)
(* C14: the root loop hands a create or chmod event to addRepo and a       *)
(* rename or remove event to removeRepo, each with the event's path; an    *)
(* event of another kind changes neither currentlyWatching nor the         *)
(* subscriptions and calls neither.                                        *)
(***************************************************************************)
NextReposEvent == Head(reposEvents)

C14_RootEventDispatch ==
    [][processReposEvent
         => /\ UNCHANGED <<currentlyWatching, subs>>
            /\ (NextReposEvent.Op \in {{"Create"}, {"Chmod"}})
                  => pc'["root"] = "add" /\ path'["root"] = NextReposEvent.Name
            /\ (NextReposEvent.Op \in {{"Rename"}, {"Remove"}})
                  => pc'["root"] = "rmLock" /\ path'["root"] = NextReposEvent.Name
            /\ (NextReposEvent.Op \cap {"Create", "Chmod", "Rename", "Remove"} = {})
                  => pc'["root"] = "idle"]_vars

\* the root loop has handed the remove event of a watched repository to
\* removeRepo
C14_Witness ==
    \E r \in Repos :
        /\ pc["root"] = "rmLock" /\ path["root"] = RootP \o separator \o r
        /\ Member(r) /\ repoKind[r] = "none" /\ ~Subscribed(r)

(***************************************************************************)
(* C15: when addRepo is called for a path that is in currentlyWatching and *)
(* whose directory does not exist at the time of the check, the path is    *)
(* out of currentlyWatching and its subscription is not active when the    *)
(* call returns.                                                           *)
(***************************************************************************)
C15_AddRepoDropsVanishedMember ==
    [][\A t \in Threads :
          (addRepoStat(t) /\ cleanPath(t) \in currentlyWatching
              /\ Stat(cleanPath(t)) # "dir")
             => /\ pc'[t] = Return(t)
                /\ cleanPath(t) \notin currentlyWatching'
                /\ targetPath(t) \notin subs']_vars

(***************************************************************************)
(* C16: the file loop never holds reposMutex, in particular not while a    *)
(* command runs or hangs: its steps leave the mutex alone, and as long as  *)
(* the process lives every acquisition of the mutex is followed by its     *)
(* release and every addRepo/removeRepo of the root loop and of the scan   *)
(* returns, whether or not the command ever exits.                         *)
(***************************************************************************)
C16_NoLockAcrossCommand ==
    /\ [](reposMutex \in Threads \cup {"free"})
    /\ [][(processEvent \/ cmdOutput) => UNCHANGED reposMutex]_vars
    /\ \A t \in Threads :
          /\ [](reposMutex = t => <>(reposMutex = "free" \/ ~Running))
          /\ [](InRepoCall(t) => <>(~InRepoCall(t) \/ ~Running))

\* a command is running while the root loop holds the mutex and the scan
\* waits for it
C16_Witness ==
    /\ pcFile = "exec" /\ reposMutex = "root" /\ pc["main"] = "addLock"

(***************************************************************************)
(* C17: a goroutine that reads or changes currentlyWatching, or adds or    *)
(* removes an inner subscription, holds reposMutex while it does so; no    *)
(* two goroutines are inside the membership test or the mutation at the    *)
(* same time.                                                              *)
(***************************************************************************)
InCritical(t) == pc[t] \in {"addBody", "addUnlock", "rmBody", "rmUnlock"}

C17_MembershipUnderMutex ==
    /\ [](\A t \in Threads : InCritical(t) => reposMutex = t)
    /\ [](~(InCritical("main") /\ InCritical("root")))
    /\ [][currentlyWatching' # currentlyWatching
            => \E t \in Threads :
                  reposMutex = t /\ (addRepoBody(t) \/ removeRepoBody(t))]_vars

\* the root loop is inside removeRepo's critical section while the scan's
\* addRepo waits at the lock
C17_Witness ==
    /\ pc["root"] = "rmBody" /\ reposMutex = "root"
    /\ pc["main"] = "addLock"

(***************************************************************************)
(* C18: the file loop handles file events one at a time in delivery order: *)
(* it takes the oldest queued event, and only when no command is running;  *)
(* while a command runs no event is taken and no other command is started, *)
(* so a command that never exits blocks every later event.                 *)
(***************************************************************************)
C18_FileLoopSequential ==
    /\ [][processEvent => pcFile = "idle" /\ events' = Tail(events)]_vars
    /\ [][(pcFile = "exec" /\ pcFile' = "exec")
            => /\ Executions' = Executions /\ cmdDir' = cmdDir
               /\ IsPrefix(events, events')]_vars
    /\ [][Executions' # Executions
            => /\ pcFile = "idle" /\ Executions' = Executions + 1
               /\ pcFile' = "exec" \/ FailedCommands' = FailedCommands + 1]_vars

\* a command is running while a qualifying event waits in the queue
C18_Witness ==
    /\ pcFile = "exec" /\ Len(events) > 0
    /\ Qualifying(events[1].Name)

(***************************************************************************)
(* C19: processEvent does not panic on the slice of line 146 for any       *)
(* delivered event path: when the directory of the event has fewer than    *)
(* len(reposRootParts)+1 segments, the event is dropped and no command is  *)
(* started.                                                                *)
(***************************************************************************)
TooShort(name) == Len(dirPathParts(name)) < Len(reposRootParts) + 1

C19_NoSlicePanic ==
    [][(processEvent /\ Qualifying(NextName))
         => /\ ~crashed'
            /\ TooShort(NextName) => pcFile' = "idle" /\ UNCHANGED log]_vars

(***************************************************************************)
(* C20: on a filesystem that does not change, once the startup scan has    *)
(* finished currentlyWatching holds exactly the directories directly under *)
(* reposRoot that contain watchPath as a directory, each subscribed and    *)
(* registered once; handing one create event per existing entry to the     *)
(* root loop ends in the same currentlyWatching and subscriptions.         *)
(***************************************************************************)
Populated == pc["main"] = "wait" /\ pc["root"] = "idle" /\ Len(reposEvents) = 0

C20_ScanPopulatesQualifying ==
    Populated
      => /\ currentlyWatching = {RepoP(r) : r \in {q \in Repos : Qualifies(q)}}
         /\ subs = {TargetP(r) : r \in {q \in Repos : Qualifies(q)}}
         /\ \A r \in Repos :
               Copies("Adding repo", RepoP(r)) = IF Qualifies(r) THEN 1 ELSE 0

\* population is over with one repository watched, next to a directory whose
\* watch subpath is a regular file
C20_Witness ==
    /\ Populated
    /\ \E r, q \in Repos :
          /\ Qualifies(r) /\ Member(r) /\ Subscribed(r)
          /\ repoKind[q] = "dir" /\ watchKind[q] = "file" /\ ~Member(q)

====
